---- MODULE Spec2Model ----
(***************************************************************************)
(* YoloLayer of src/models/yolo_layer.py: the grid-geometry cache          *)
(* (compute_grid_offsets), the target builder (build_targets) and forward. *)
(*                                                                         *)
(* Real numbers are exact: a value is Rat(n, d) (the fraction n/d, kept    *)
(* reduced) or LogOf(n, d) (log(n/d + 1e-16)), so that two tensors are     *)
(* equal exactly when their entries are.  A tensor addressed by            *)
(* (batch, anchor, row, col) is a function on Slots(nB, nG), 0-based as in *)
(* the code.  The rotated-IoU primitives are external: their results are   *)
(* inputs of the model.                                                    *)
(***************************************************************************)
EXTENDS Integers, Sequences, FiniteSets, TLC

VARIABLES
    grid_size, img_size, stride, grid_x, grid_y, scaled_anchors,
    anchor_w, anchor_h, scaled_anchors_polygons, scaled_anchors_areas,
    metrics,
    call, ret, args, bt, thr

cache == <<grid_size, stride, grid_x, grid_y, scaled_anchors, anchor_w,
           anchor_h, scaled_anchors_polygons, scaled_anchors_areas>>
layer == <<grid_size, img_size, stride, grid_x, grid_y, scaled_anchors,
           anchor_w, anchor_h, scaled_anchors_polygons, scaled_anchors_areas,
           metrics>>
vars == <<grid_size, img_size, stride, grid_x, grid_y, scaled_anchors,
          anchor_w, anchor_h, scaled_anchors_polygons, scaled_anchors_areas,
          metrics, call, ret, args, bt, thr>>

----------------------------------------------------------------------------
(* Bounds of the model *)

MaxBatch == 2
MaxGrid == 2
MaxBoxes == 2
PosDenom == 3
MaxIoU == 1
num_classes == 2
ignore_thresh == 0

(* The anchor priors (a_w, a_h, im, re) the layer is constructed with. *)
anchors ==
    << [w |-> 2, h |-> 4, im |-> 0, re |-> 1],
       [w |-> 4, h |-> 2, im |-> 1, re |-> 0] >>
num_anchors == Len(anchors)

ImgSizes == {4, 8}
GridSizes == 1..MaxGrid
BatchSizes == 1..MaxBatch
IoULevels == 0..MaxIoU
Classes == 0..(num_classes - 1)
Anchors == 1..num_anchors

----------------------------------------------------------------------------
(* Exact arithmetic *)

RECURSIVE GCD(_, _)
GCD(a, b) == IF b = 0 THEN a ELSE GCD(b, a % b)

Rat(n, d) ==
    LET g == GCD(n, d)
    IN  [kind |-> "rat", num |-> n \div g, den |-> d \div g]

LogOf(n, d) ==
    LET g == GCD(n, d)
    IN  [kind |-> "log", num |-> n \div g, den |-> d \div g]

Zero == Rat(0, 1)
One == Rat(1, 1)

(* p / q for rationals p, q with q > 0 *)
RatDiv(p, q) == Rat(p.num * q.den, p.den * q.num)
RatMul(p, q) == Rat(p.num * q.num, p.den * q.den)

----------------------------------------------------------------------------
(* Tensors addressed by (batch, anchor, row, col); anchors are 1-based     *)
(* here (TLA+ sequences), everything else 0-based.                         *)

Slots(nB, nG) == (0..(nB - 1)) \X Anchors \X (0..(nG - 1)) \X (0..(nG - 1))

Full(nB, nG, v) == [s \in Slots(nB, nG) |-> v]

----------------------------------------------------------------------------
(* compute_grid_offsets, one definition per assignment (lines 55-69) *)

(* (the quotient taken the other way round) *)
StrideInverted(img, g) == Rat(g, img)
StrideOf(img, g) == Rat(img, g)

(* torch.arange(g).repeat(g, 1).view([1, 1, g, g]): entry [row][col] = col *)
GridX(g) == [r \in 1..g |-> [c \in 1..g |-> c - 1]]

(* the same, transposed: entry [row][col] = row *)
GridY(g) == [r \in 1..g |-> [c \in 1..g |-> r - 1]]

ScaledAnchors(st) ==
    [a \in Anchors |->
        [w  |-> RatDiv(Rat(anchors[a].w, 1), st),
         h  |-> RatDiv(Rat(anchors[a].h, 1), st),
         im |-> anchors[a].im,
         re |-> anchors[a].re]]

AnchorW(sa) == [a \in DOMAIN sa |-> sa[a].w]
AnchorH(sa) == [a \in DOMAIN sa |-> sa[a].h]

(* get_polygons_fix_xy(boxes, fix_xy=100) is external: a polygon is known  *)
(* here by the box it was built from and its fixed centre.                 *)
FixXY == 100
Polygons(sa) ==
    [a \in DOMAIN sa |->
        [cx |-> FixXY, cy |-> FixXY, w |-> sa[a].w, l |-> sa[a].h,
         im |-> sa[a].im, re |-> sa[a].re]]
Areas(polys) == [a \in DOMAIN polys |-> RatMul(polys[a].w, polys[a].l)]

(* The cache after compute_grid_offsets(g) has run to its end with         *)
(* self.img_size = img.                                                    *)
ComputeGridOffsets(g, img) ==
    LET st == StrideOf(img, g)
        sa == ScaledAnchors(st)
        polys == Polygons(sa)
    IN  [grid_size |-> g, stride |-> st, grid_x |-> GridX(g),
         grid_y |-> GridY(g), scaled_anchors |-> sa,
         anchor_w |-> AnchorW(sa), anchor_h |-> AnchorH(sa),
         scaled_anchors_polygons |-> polys,
         scaled_anchors_areas |-> Areas(polys)]

----------------------------------------------------------------------------
(* build_targets (lines 71-143)                                            *)
(*                                                                         *)
(* A ground-truth row is [b, label, x, y, w, h, im, re]; x, y, w, h are    *)
(* the numerators of fractions over PosDenom (x = PosDenom is the          *)
(* normalized coordinate 1.0).  ious[a][i] is the result of                *)
(* iou_rotated_boxes_vs_anchors for anchor a and row i (quantized, in      *)
(* units of 1/MaxIoU).  pred stands for out_boxes and pred_cls: argmax is  *)
(* pred_cls[...].argmax(-1) and score the result of                        *)
(* iou_pred_vs_target_boxes (in units of 1/MaxIoU), the same at every      *)
(* slot.                                                                   *)

(* gxy = target_boxes[:, :2] * nG, as a numerator over PosDenom *)
GScaled(k, nG) == k * nG

(* .long() of a non-negative value *)
ToLong(n) == n \div PosDenom

(* gx - gx.floor() *)
FracPart(n) == Rat(n - PosDenom * (n \div PosDenom), PosDenom)

(* (the index of the last maximum) *)
BestAnchorLast(ious, i) ==
    CHOOSE a \in Anchors :
        /\ \A a2 \in Anchors : ious[a2][i] <= ious[a][i]
        /\ \A a2 \in Anchors : a2 > a => ious[a2][i] < ious[a][i]
(* ious.max(0): for one row, the index of the maximum, the first one of    *)
(* several (torch.max's documented tie rule)                               *)
BestAnchor(ious, i) ==
    CHOOSE a \in Anchors :
        /\ \A a2 \in Anchors : ious[a2][i] <= ious[a][i]
        /\ \A a2 \in Anchors : a2 < a => ious[a2][i] < ious[a][i]

(* (at least the threshold) *)
AboveThreshAtLeast(v) == v >= ignore_thresh
(* anchor_ious > self.ignore_thresh (line 124) *)
AboveThresh(v) == v > ignore_thresh

(* the index tuple (b, best_n, gj, gi) of row i (lines 110-117) *)
SlotOf(target, ious, nG, i) ==
    << target[i].b, BestAnchor(ious, i),
       ToLong(GScaled(target[i].y, nG)), ToLong(GScaled(target[i].x, nG)) >>

(* An index outside the tensor raises IndexError at the first indexed      *)
(* write (line 119).                                                       *)
InRange(target, nB, nG, i) ==
    /\ target[i].b \in 0..(nB - 1)
    /\ ToLong(GScaled(target[i].y, nG)) \in 0..(nG - 1)
    /\ ToLong(GScaled(target[i].x, nG)) \in 0..(nG - 1)

(* the fill values of lines 83-93 *)
ObjMaskInit(nB, nG) == Full(nB, nG, FALSE)
(* (noobj_mask filled with 0) *)
NoobjMaskInitZero(nB, nG) == Full(nB, nG, FALSE)
NoobjMaskInit(nB, nG) == Full(nB, nG, TRUE)
FloatInit(nB, nG) == Full(nB, nG, Zero)
TclsInit(nB, nG) == Full(nB, nG, [c \in Classes |-> 0])

(* tconf = obj_mask.float() (lines 94 and 140) *)
ToFloat(mask) == [s \in DOMAIN mask |-> IF mask[s] THEN One ELSE Zero]

(* T[b, best_n, gj, gi] = vals: an indexed write.  Rows with the same      *)
(* index tuple write the same element; index_put_ without accumulate       *)
(* leaves the result undefined there (one of the written values: on CPU    *)
(* the last row, on CUDA any).  prio orders the rows: the row of highest   *)
(* prio among those writing an element is the one that stays.              *)
Writers(idx, s) == {i \in DOMAIN idx : idx[i] = s}
Winner(prio, ws) == CHOOSE i \in ws : \A j \in ws : prio[j] <= prio[i]
IndexPut(base, idx, vals, prio) ==
    [s \in DOMAIN base |->
        IF Writers(idx, s) = {} THEN base[s]
        ELSE vals[Winner(prio, Writers(idx, s))]]

(* lines 123-124: the loop over the rows, in order *)
RECURSIVE IgnoreLoop(_, _, _, _, _)
IgnoreLoop(mask, target, ious, nG, i) ==
    IF i > Len(target) THEN mask
    ELSE LET bi == target[i].b
             gji == ToLong(GScaled(target[i].y, nG))
             gii == ToLong(GScaled(target[i].x, nG))
             next == [s \in DOMAIN mask |->
                        IF /\ s[1] = bi /\ s[3] = gji /\ s[4] = gii
                           /\ AboveThresh(ious[s[2]][i])
                        THEN FALSE ELSE mask[s]]
         IN  IgnoreLoop(next, target, ious, nG, i + 1)

(* tcls[b, best_n, gj, gi, target_labels] = 1 (line 137): every written    *)
(* value is 1, so rows that share a slot each set their own label          *)
TclsPut(base, idx, target) ==
    [s \in DOMAIN base |->
        [c \in Classes |->
            IF \E i \in Writers(idx, s) : target[i].label = c THEN 1
            ELSE base[s][c]]]

(* torch.log(gw / anchors[best_n][:, 0] + 1e-16) *)
LogRatio(gn, a) == LogOf(gn * a.den, PosDenom * a.num)

IdentityPrio(n) == [i \in 1..n |-> i]
Prios(n) == {p \in [1..n -> 1..n] : \A i, j \in 1..n : p[i] = p[j] => i = j}

BuildTargets(nB, nG, target, sa, ious, pred, win) ==
    LET n == Len(target)
        obj0 == ObjMaskInit(nB, nG)
        noobj0 == NoobjMaskInit(nB, nG)
        f0 == FloatInit(nB, nG)
        tcls0 == TclsInit(nB, nG)
        idx == [i \in 1..n |-> SlotOf(target, ious, nG, i)]
        ones == [i \in 1..n |-> TRUE]
        zeros == [i \in 1..n |-> FALSE]
        obj1 == IndexPut(obj0, idx, ones, IdentityPrio(n))
        noobj1 == IndexPut(noobj0, idx, zeros, IdentityPrio(n))
        noobj2 == IgnoreLoop(noobj1, target, ious, nG, 1)
    IN  IF n = 0 THEN
            [status |-> "ok", iou_scores |-> f0, class_mask |-> f0,
             obj_mask |-> obj0, noobj_mask |-> noobj0,
             tx |-> f0, ty |-> f0, tw |-> f0, th |-> f0, tim |-> f0,
             tre |-> f0, tcls |-> tcls0, tconf |-> ToFloat(obj0)]
        ELSE IF \E i \in 1..n : ~InRange(target, nB, nG, i) THEN
            [status |-> "IndexError", iou_scores |-> f0, class_mask |-> f0,
             obj_mask |-> obj0, noobj_mask |-> noobj0,
             tx |-> f0, ty |-> f0, tw |-> f0, th |-> f0, tim |-> f0,
             tre |-> f0, tcls |-> tcls0, tconf |-> ToFloat(obj0)]
        ELSE
            [status |-> "ok",
             iou_scores |-> IndexPut(f0, idx,
                 [i \in 1..n |-> Rat(pred.score, MaxIoU)], win),
             class_mask |-> IndexPut(f0, idx,
                 [i \in 1..n |-> IF pred.argmax = target[i].label
                                 THEN One ELSE Zero], win),
             obj_mask |-> obj1,
             noobj_mask |-> noobj2,
             tx |-> IndexPut(f0, idx,
                 [i \in 1..n |-> FracPart(GScaled(target[i].x, nG))], win),
             ty |-> IndexPut(f0, idx,
                 [i \in 1..n |-> FracPart(GScaled(target[i].y, nG))], win),
             tw |-> IndexPut(f0, idx,
                 [i \in 1..n |-> LogRatio(GScaled(target[i].w, nG),
                                          sa[idx[i][2]].w)], win),
             th |-> IndexPut(f0, idx,
                 [i \in 1..n |-> LogRatio(GScaled(target[i].h, nG),
                                          sa[idx[i][2]].h)], win),
             tim |-> IndexPut(f0, idx,
                 [i \in 1..n |-> Rat(target[i].im, 1)], win),
             tre |-> IndexPut(f0, idx,
                 [i \in 1..n |-> Rat(target[i].re, 1)], win),
             tcls |-> TclsPut(tcls0, idx, target),
             tconf |-> ToFloat(obj1)]

----------------------------------------------------------------------------
(* The inputs of build_targets                                             *)

(* The ground-truth boxes of a class share one shape (w, h, im, re). *)
ClassShape(c) ==
    [w |-> 1 + c, h |-> 1 + (c % 2), im |-> c % 2, re |-> 1 - (c % 2)]

GTBoxes(nB) ==
    { [b |-> b, label |-> l, x |-> x, y |-> y,
       w |-> ClassShape(l).w, h |-> ClassShape(l).h,
       im |-> ClassShape(l).im, re |-> ClassShape(l).re] :
        b \in 0..(nB - 1), l \in Classes, x \in 0..PosDenom,
        y \in 0..PosDenom }

IoUMatrices(n) == [Anchors -> [1..n -> IoULevels]]

(* out_boxes, pred_conf and pred_cls, by what build_targets reads of them  *)
(* and the loss reads of them: a prediction that is off (bce the sign of   *)
(* its binary cross-entropy terms) and one that is saturated at the        *)
(* targets of class 1                                                      *)
Preds ==
    { [argmax |-> 0, score |-> 0, bce |-> "pos"],
      [argmax |-> 1, score |-> MaxIoU, bce |-> "zero"] }

(* Rows that write the same element *)
Collides(idx) == \E i, j \in DOMAIN idx : i # j /\ idx[i] = idx[j]

(* The orders in which a device may perform the rows' writes *)
WinChoices(idx) ==
    IF Collides(idx) THEN Prios(Len(idx)) ELSE {IdentityPrio(Len(idx))}

NoResult == [status |-> "none"]
NoCall == [op |-> "none"]
NoArgs == [nB |-> 0]

(* The layer as constructed (lines 29-52); grid_x and the other geometry   *)
(* attributes do not exist yet.                                            *)
InitLayer ==
    /\ grid_size = 0
    /\ img_size = 0
    /\ stride = Rat(8, 1)
    /\ grid_x = <<>>
    /\ grid_y = <<>>
    /\ scaled_anchors = <<>>
    /\ anchor_w = <<>>
    /\ anchor_h = <<>>
    /\ scaled_anchors_polygons = <<>>
    /\ scaled_anchors_areas = <<>>
    /\ metrics = <<>>

(* The layer after compute_grid_offsets(g) with self.img_size = img *)
LayerAt(g, img) ==
    LET c == ComputeGridOffsets(g, img)
    IN  /\ grid_size = c.grid_size
        /\ img_size = img
        /\ stride = c.stride
        /\ grid_x = c.grid_x
        /\ grid_y = c.grid_y
        /\ scaled_anchors = c.scaled_anchors
        /\ anchor_w = c.anchor_w
        /\ anchor_h = c.anchor_h
        /\ scaled_anchors_polygons = c.scaled_anchors_polygons
        /\ scaled_anchors_areas = c.scaled_anchors_areas
        /\ metrics = <<>>

----------------------------------------------------------------------------
(* build_targets as a function of its inputs: SpecTargets                  *)

TargetsImg == CHOOSE i \in ImgSizes : \A j \in ImgSizes : j <= i

(* Every batch and grid size with no rows; the largest with up to         *)
(* MaxBoxes rows.                                                          *)
RowsAt(nB, nG) == IF nB = MaxBatch /\ nG = MaxGrid THEN MaxBoxes ELSE 0

InitTargets ==
    /\ \E nB \in BatchSizes, nG \in GridSizes :
         /\ LayerAt(nG, TargetsImg)
         /\ \E n \in 0..RowsAt(nB, nG) :
              \E target \in [1..n -> GTBoxes(nB)], ious \in IoUMatrices(n) :
                 args = [nB |-> nB, nG |-> nG, target |-> target,
                         ious |-> ious]
    /\ bt = NoResult
    /\ call = NoCall
    /\ ret = NoResult
    /\ thr = <<>>

CallBuildTargets ==
    /\ bt.status = "none"
    /\ LET n == Len(args.target)
           idx == [i \in 1..n |-> SlotOf(args.target, args.ious, args.nG, i)]
       IN  \E pred \in Preds, win \in WinChoices(idx) :
              bt' = BuildTargets(args.nB, args.nG, args.target, scaled_anchors,
                                 args.ious, pred, win)
    /\ UNCHANGED <<layer, call, ret, args, thr>>

NextTargets == CallBuildTargets

SpecTargets == InitTargets /\ [][NextTargets]_vars

----------------------------------------------------------------------------
(* forward (lines 145-216)                                                 *)

PredChannels == 7

(* x.size() of the input *)
XShape(B, g) == <<B, num_anchors * (num_classes + PredChannels), g, g>>

RECURSIVE Numel(_)
Numel(shape) == IF shape = <<>> THEN 1 ELSE Head(shape) * Numel(Tail(shape))

(* x.view(num_samples, num_anchors, num_classes + 7, g, g)                 *)
(*  .permute(0, 1, 3, 4, 2) (lines 156-157)                                *)
PredictionShape(x) ==
    LET v == <<x[1], num_anchors, num_classes + PredChannels, x[4], x[4]>>
    IN  <<v[1], v[2], v[4], v[5], v[3]>>

(* prediction[..., lo:hi].shape *)
SliceLast(shape, lo, hi) == [shape EXCEPT ![Len(shape)] = hi - lo]

(* prediction[..., k].shape *)
DropLast(shape) == SubSeq(shape, 1, Len(shape) - 1)

(* t.view(num_samples, -1, k): the shape, -1 inferred from the elements *)
View3(shape, B, k) == <<B, Numel(shape) \div (B * k), k>>

(* torch.cat(parts, dim=-1) of parts that agree on the other dimensions *)
RECURSIVE SumLast(_)
SumLast(parts) ==
    IF parts = <<>> THEN 0 ELSE Head(parts)[3] + SumLast(Tail(parts))
(* (the first part alone) *)
CatLastFirstOnly(parts) == <<parts[1][1], parts[1][2], parts[1][3]>>
CatLast(parts) == <<parts[1][1], parts[1][2], SumLast(parts)>>

(* the shape of output (lines 176-189) *)
OutputShape(x) ==
    LET p == PredictionShape(x)
        out_boxes == SliceLast(p, 0, 6)
    IN  CatLast(<< View3(SliceLast(out_boxes, 0, 4), x[1], 4),
                   View3(SliceLast(out_boxes, 4, 6), x[1], 2),
                   View3(DropLast(p), x[1], 1),
                   View3(SliceLast(p, PredChannels, p[Len(p)]), x[1],
                         num_classes) >>)

(* (recomputing at every call) *)
AlwaysRecompute(g, cached) == TRUE
(* line 171 *)
NeedsRecompute(g, cached) == g # cached

(* A loss value is known by its sign: "zero", "pos" or "nan".              *)
(* (1. - iou_masked).mean(): the mean of no element is nan (0/0); the      *)
(* scores are IoUs, at most 1.                                             *)
LossBox(r) ==
    LET objs == {s \in DOMAIN r.obj_mask : r.obj_mask[s]}
    IN  IF objs = {} THEN "nan"
        ELSE IF \A s \in objs : r.iou_scores[s] = One THEN "zero"
        ELSE "pos"

(* F.binary_cross_entropy(input[mask], target[mask], reduction='mean'):    *)
(* nan for an empty selection, else the sign of its terms                  *)
BceMean(mask, sign) ==
    IF {s \in DOMAIN mask : mask[s]} = {} THEN "nan" ELSE sign

AddLoss(p, q) ==
    IF p = "nan" \/ q = "nan" THEN "nan"
    ELSE IF p = "pos" \/ q = "pos" THEN "pos"
    ELSE "zero"

ScaleLoss(k, p) == IF p = "nan" THEN "nan" ELSE IF k = 0 THEN "zero" ELSE p

noobj_scale == 100
obj_scale == 1
lbox_scale == 1
lobj_scale == 1
lcls_scale == 1

(* lines 199-206 *)
Losses(r, pred) ==
    LET loss_box == LossBox(r)
        loss_conf_obj == BceMean(r.obj_mask, pred.bce)
        loss_conf_noobj == BceMean(r.noobj_mask, pred.bce)
        loss_obj == AddLoss(ScaleLoss(obj_scale, loss_conf_obj),
                            ScaleLoss(noobj_scale, loss_conf_noobj))
        loss_cls == BceMean(r.obj_mask, pred.bce)
        total == AddLoss(AddLoss(ScaleLoss(lbox_scale, loss_box),
                                 ScaleLoss(lobj_scale, loss_obj)),
                         ScaleLoss(lcls_scale, loss_cls))
    IN  [loss |-> total, loss_box |-> loss_box, loss_obj |-> loss_obj,
         loss_cls |-> loss_cls]

(* lines 152 and 171-172: the attributes of the layer after them *)
Geometry(g, img) ==
    /\ img_size' = img
    /\ IF NeedsRecompute(g, grid_size)
       THEN LET c == ComputeGridOffsets(g, img)
            IN  /\ grid_size' = c.grid_size
                /\ stride' = c.stride
                /\ grid_x' = c.grid_x
                /\ grid_y' = c.grid_y
                /\ scaled_anchors' = c.scaled_anchors
                /\ anchor_w' = c.anchor_w
                /\ anchor_h' = c.anchor_h
                /\ scaled_anchors_polygons' = c.scaled_anchors_polygons
                /\ scaled_anchors_areas' = c.scaled_anchors_areas
       ELSE UNCHANGED cache

(* What is recorded of a call: its arguments, whether it ran               *)
(* compute_grid_offsets and build_targets, and the img_size of the latest  *)
(* call that ran compute_grid_offsets.                                     *)
CallRecord(B, g, img, has_targets, n_rows) ==
    [op |-> "forward", B |-> B, g |-> g, img |-> img,
     has_targets |-> has_targets, n_rows |-> n_rows,
     computed |-> NeedsRecompute(g, grid_size),
     built |-> has_targets,
     cache_img |-> IF NeedsRecompute(g, grid_size) THEN img
                   ELSE IF call.op = "forward" THEN call.cache_img ELSE 0]

(* forward(x, targets=None, img_size=img) *)
ForwardNoTargets(B, g, img) ==
    /\ Geometry(g, img)
    /\ call' = CallRecord(B, g, img, FALSE, 0)
    /\ ret' = [status |-> "returned", output_shape |-> OutputShape(XShape(B, g)),
               loss |-> "zero"]
    /\ UNCHANGED <<metrics, args, bt, thr>>

(* forward(x, targets=target, img_size=img) *)
ForwardWithTargets(B, g, img, target, ious, pred, win) ==
    /\ Geometry(g, img)
    /\ call' = CallRecord(B, g, img, TRUE, Len(target))
    /\ LET sa == IF NeedsRecompute(g, grid_size)
                 THEN ComputeGridOffsets(g, img).scaled_anchors
                 ELSE scaled_anchors
           r == BuildTargets(B, g, target, sa, ious, pred, win)
           l == Losses(r, pred)
       IN  IF r.status = "IndexError"
           THEN /\ ret' = [status |-> "IndexError",
                           output_shape |-> <<>>, loss |-> "none"]
                /\ UNCHANGED metrics
           ELSE /\ ret' = [status |-> "returned",
                           output_shape |-> OutputShape(XShape(B, g)),
                           loss |-> l.loss]
                /\ metrics' = l
    /\ UNCHANGED <<args, bt, thr>>

(* The targets of the calls: no row, or one row in the first image *)
FwdBoxes == {t \in GTBoxes(1) : t.label = 0 /\ t.x = t.y}
FwdTargets == {<<>>} \cup {<<t>> : t \in FwdBoxes}

Init ==
    /\ InitLayer
    /\ call = NoCall
    /\ ret = NoResult
    /\ args = NoArgs
    /\ bt = NoResult
    /\ thr = <<>>

Next ==
    \E B \in BatchSizes, g \in GridSizes, img \in ImgSizes :
        \/ ForwardNoTargets(B, g, img)
        \/ \E target \in FwdTargets :
             \E ious \in IoUMatrices(Len(target)), pred \in Preds :
                ForwardWithTargets(B, g, img, target, ious, pred,
                                   IdentityPrio(Len(target)))

Spec == Init /\ [][Next]_vars

----------------------------------------------------------------------------
(* Two forward calls (targets=None) on one layer from two threads, a step  *)
(* per statement that reads or writes an attribute of the layer: SpecConc  *)

Threads == {1, 2}

(* pred + self.grid_x assigned into out_boxes[..., 0] of grid size g: the  *)
(* cached array broadcasts when it has the call's grid size or size 1      *)
Assignable(arr, g) == Len(arr) = g \/ Len(arr) = 1

NoneRead == [grid_x |-> <<>>, grid_y |-> <<>>, anchor_w |-> <<>>,
             anchor_h |-> <<>>, stride |-> Zero]

InitConc ==
    /\ \E img \in ImgSizes :
         /\ \/ InitLayer
            \/ \E g0 \in GridSizes : LayerAt(g0, img)
         /\ \E gs \in [Threads -> GridSizes] :
              /\ \A t, u \in Threads : t # u => gs[t] # gs[u]
              /\ thr = [t \in Threads |->
                          [pc |-> "l152", g |-> gs[t], img |-> img,
                           loc_g |-> 0, read |-> NoneRead]]
    /\ call = NoCall
    /\ ret = NoResult
    /\ args = NoArgs
    /\ bt = NoResult

(* line 152: self.img_size = img_size *)
T152(t) ==
    /\ thr[t].pc = "l152"
    /\ img_size' = thr[t].img
    /\ thr' = [thr EXCEPT ![t].pc = "l171"]
    /\ UNCHANGED <<grid_size, stride, grid_x, grid_y, scaled_anchors,
                   anchor_w, anchor_h, scaled_anchors_polygons,
                   scaled_anchors_areas, metrics, call, ret, args, bt>>

(* line 171: if grid_size != self.grid_size *)
T171(t) ==
    /\ thr[t].pc = "l171"
    /\ thr' = [thr EXCEPT ![t].pc =
                  IF NeedsRecompute(thr[t].g, grid_size) THEN "l55" ELSE "l177"]
    /\ UNCHANGED <<grid_size, img_size, stride, grid_x, grid_y,
                   scaled_anchors, anchor_w, anchor_h,
                   scaled_anchors_polygons, scaled_anchors_areas, metrics,
                   call, ret, args, bt>>

(* line 55: self.grid_size = grid_size *)
T55(t) ==
    /\ thr[t].pc = "l55"
    /\ grid_size' = thr[t].g
    /\ thr' = [thr EXCEPT ![t].pc = "l56"]
    /\ UNCHANGED <<img_size, stride, grid_x, grid_y, scaled_anchors,
                   anchor_w, anchor_h, scaled_anchors_polygons,
                   scaled_anchors_areas, metrics, call, ret, args, bt>>

(* line 56: g = self.grid_size *)
T56(t) ==
    /\ thr[t].pc = "l56"
    /\ thr' = [thr EXCEPT ![t].pc = "l57", ![t].loc_g = grid_size]
    /\ UNCHANGED <<grid_size, img_size, stride, grid_x, grid_y,
                   scaled_anchors, anchor_w, anchor_h,
                   scaled_anchors_polygons, scaled_anchors_areas, metrics,
                   call, ret, args, bt>>

(* line 57: self.stride = self.img_size / self.grid_size *)
T57(t) ==
    /\ thr[t].pc = "l57"
    /\ stride' = StrideOf(img_size, grid_size)
    /\ thr' = [thr EXCEPT ![t].pc = "l59"]
    /\ UNCHANGED <<grid_size, img_size, grid_x, grid_y, scaled_anchors,
                   anchor_w, anchor_h, scaled_anchors_polygons,
                   scaled_anchors_areas, metrics, call, ret, args, bt>>

(* line 59 *)
T59(t) ==
    /\ thr[t].pc = "l59"
    /\ grid_x' = GridX(thr[t].loc_g)
    /\ thr' = [thr EXCEPT ![t].pc = "l60"]
    /\ UNCHANGED <<grid_size, img_size, stride, grid_y, scaled_anchors,
                   anchor_w, anchor_h, scaled_anchors_polygons,
                   scaled_anchors_areas, metrics, call, ret, args, bt>>

(* line 60 *)
T60(t) ==
    /\ thr[t].pc = "l60"
    /\ grid_y' = GridY(thr[t].loc_g)
    /\ thr' = [thr EXCEPT ![t].pc = "l61"]
    /\ UNCHANGED <<grid_size, img_size, stride, grid_x, scaled_anchors,
                   anchor_w, anchor_h, scaled_anchors_polygons,
                   scaled_anchors_areas, metrics, call, ret, args, bt>>

(* lines 61-63 *)
T61(t) ==
    /\ thr[t].pc = "l61"
    /\ scaled_anchors' = ScaledAnchors(stride)
    /\ thr' = [thr EXCEPT ![t].pc = "l64"]
    /\ UNCHANGED <<grid_size, img_size, stride, grid_x, grid_y, anchor_w,
                   anchor_h, scaled_anchors_polygons, scaled_anchors_areas,
                   metrics, call, ret, args, bt>>

(* line 64 *)
T64(t) ==
    /\ thr[t].pc = "l64"
    /\ anchor_w' = AnchorW(scaled_anchors)
    /\ thr' = [thr EXCEPT ![t].pc = "l65"]
    /\ UNCHANGED <<grid_size, img_size, stride, grid_x, grid_y,
                   scaled_anchors, anchor_h, scaled_anchors_polygons,
                   scaled_anchors_areas, metrics, call, ret, args, bt>>

(* line 65 *)
T65(t) ==
    /\ thr[t].pc = "l65"
    /\ anchor_h' = AnchorH(scaled_anchors)
    /\ thr' = [thr EXCEPT ![t].pc = "l68"]
    /\ UNCHANGED <<grid_size, img_size, stride, grid_x, grid_y,
                   scaled_anchors, anchor_w, scaled_anchors_polygons,
                   scaled_anchors_areas, metrics, call, ret, args, bt>>

(* line 68 *)
T68(t) ==
    /\ thr[t].pc = "l68"
    /\ scaled_anchors_polygons' = Polygons(scaled_anchors)
    /\ thr' = [thr EXCEPT ![t].pc = "l69"]
    /\ UNCHANGED <<grid_size, img_size, stride, grid_x, grid_y,
                   scaled_anchors, anchor_w, anchor_h,
                   scaled_anchors_areas, metrics, call, ret, args, bt>>

(* line 69 *)
T69(t) ==
    /\ thr[t].pc = "l69"
    /\ scaled_anchors_areas' = Areas(scaled_anchors_polygons)
    /\ thr' = [thr EXCEPT ![t].pc = "l177"]
    /\ UNCHANGED <<grid_size, img_size, stride, grid_x, grid_y,
                   scaled_anchors, anchor_w, anchor_h,
                   scaled_anchors_polygons, metrics, call, ret, args, bt>>

(* line 177: reads self.grid_x; a shape that does not broadcast raises *)
T177(t) ==
    /\ thr[t].pc = "l177"
    /\ thr' = IF Assignable(grid_x, thr[t].g)
              THEN [thr EXCEPT ![t].pc = "l178", ![t].read.grid_x = grid_x]
              ELSE [thr EXCEPT ![t].pc = "RuntimeError"]
    /\ UNCHANGED <<grid_size, img_size, stride, grid_x, grid_y,
                   scaled_anchors, anchor_w, anchor_h,
                   scaled_anchors_polygons, scaled_anchors_areas, metrics,
                   call, ret, args, bt>>

(* line 178: reads self.grid_y; a shape that does not broadcast raises *)
T178(t) ==
    /\ thr[t].pc = "l178"
    /\ thr' = IF Assignable(grid_y, thr[t].g)
              THEN [thr EXCEPT ![t].pc = "l179", ![t].read.grid_y = grid_y]
              ELSE [thr EXCEPT ![t].pc = "RuntimeError"]
    /\ UNCHANGED <<grid_size, img_size, stride, grid_x, grid_y,
                   scaled_anchors, anchor_w, anchor_h,
                   scaled_anchors_polygons, scaled_anchors_areas, metrics,
                   call, ret, args, bt>>

(* line 179: reads self.anchor_w *)
T179(t) ==
    /\ thr[t].pc = "l179"
    /\ thr' = [thr EXCEPT ![t].pc = "l180", ![t].read.anchor_w = anchor_w]
    /\ UNCHANGED <<grid_size, img_size, stride, grid_x, grid_y,
                   scaled_anchors, anchor_w, anchor_h,
                   scaled_anchors_polygons, scaled_anchors_areas, metrics,
                   call, ret, args, bt>>

(* line 180: reads self.anchor_h *)
T180(t) ==
    /\ thr[t].pc = "l180"
    /\ thr' = [thr EXCEPT ![t].pc = "l185", ![t].read.anchor_h = anchor_h]
    /\ UNCHANGED <<grid_size, img_size, stride, grid_x, grid_y,
                   scaled_anchors, anchor_w, anchor_h,
                   scaled_anchors_polygons, scaled_anchors_areas, metrics,
                   call, ret, args, bt>>

(* line 185: reads self.stride; line 193 returns *)
T185(t) ==
    /\ thr[t].pc = "l185"
    /\ thr' = [thr EXCEPT ![t].pc = "done", ![t].read.stride = stride]
    /\ UNCHANGED <<grid_size, img_size, stride, grid_x, grid_y,
                   scaled_anchors, anchor_w, anchor_h,
                   scaled_anchors_polygons, scaled_anchors_areas, metrics,
                   call, ret, args, bt>>

NextConc ==
    \E t \in Threads :
        \/ T152(t) \/ T171(t)
        \/ T55(t) \/ T56(t) \/ T57(t) \/ T59(t) \/ T60(t) \/ T61(t)
        \/ T64(t) \/ T65(t) \/ T68(t) \/ T69(t)
        \/ T177(t) \/ T178(t) \/ T179(t) \/ T180(t) \/ T185(t)

SpecConc == InitConc /\ [][NextConc]_vars

----------------------------------------------------------------------------
(* Properties                                                              *)

Done == bt.status = "ok"
NRows == Len(args.target)

(* floor(k * nG / PosDenom), from its definition *)
FloorCell(k, nG) ==
    CHOOSE r \in 0..(k * nG) :
        r * PosDenom <= k * nG /\ k * nG < (r + 1) * PosDenom

(* anchor a has the maximum IoU against row i and is the first to have it *)
FirstMax(ious, i, a) ==
    /\ \A a2 \in Anchors : ious[a2][i] <= ious[a][i]
    /\ \A a2 \in Anchors : a2 < a => ious[a2][i] # ious[a][i]

(* row i is assigned to slot s *)
AssignedTo(i, s) ==
    /\ args.target[i].b = s[1]
    /\ FirstMax(args.ious, i, s[2])
    /\ FloorCell(args.target[i].y, args.nG) = s[3]
    /\ FloorCell(args.target[i].x, args.nG) = s[4]

(* row i lies in the cell of slot s, in its image *)
InCellOf(i, s) ==
    /\ args.target[i].b = s[1]
    /\ FloorCell(args.target[i].y, args.nG) = s[3]
    /\ FloorCell(args.target[i].x, args.nG) = s[4]

(* C1: when two rows map to the same (batch, best anchor, row, col) slot,  *)
(* after build_targets the regression targets and the class vector at the  *)
(* slot are those of the later row alone (tcls the one-hot vector of its   *)
(* label) and obj_mask is true there.                                      *)
C1_LastWriteWins ==
    Done =>
        \A i, j \in 1..NRows :
            (/\ i < j
             /\ \E s \in Slots(args.nB, args.nG) :
                    AssignedTo(i, s) /\ AssignedTo(j, s)
             /\ ~\E k \in 1..NRows :
                    /\ k > j
                    /\ \E s \in Slots(args.nB, args.nG) :
                           AssignedTo(j, s) /\ AssignedTo(k, s))
            => LET s == CHOOSE s \in Slots(args.nB, args.nG) : AssignedTo(j, s)
                   t == args.target[j]
                   a == scaled_anchors[s[2]]
               IN  /\ bt.obj_mask[s]
                   /\ bt.tx[s] = FracPart(GScaled(t.x, args.nG))
                   /\ bt.ty[s] = FracPart(GScaled(t.y, args.nG))
                   /\ bt.tw[s] = LogRatio(GScaled(t.w, args.nG), a.w)
                   /\ bt.th[s] = LogRatio(GScaled(t.h, args.nG), a.h)
                   /\ bt.tim[s] = Rat(t.im, 1)
                   /\ bt.tre[s] = Rat(t.re, 1)
                   /\ bt.tcls[s] = [c \in Classes |->
                                        IF c = t.label THEN 1 ELSE 0]

(* C2: obj_mask is true at a slot exactly when some row has the slot's     *)
(* batch index, lies in its cell (row floor(gy), column floor(gx)) and has *)
(* its maximum IoU at the slot's anchor, the first such anchor on a tie;   *)
(* noobj_mask is false at every such slot.                                 *)
C2_BestAnchorSlots ==
    Done =>
        /\ DOMAIN bt.obj_mask = Slots(args.nB, args.nG)
        /\ \A s \in Slots(args.nB, args.nG) :
            /\ bt.obj_mask[s] <=> \E i \in 1..NRows : AssignedTo(i, s)
            /\ bt.obj_mask[s] => ~bt.noobj_mask[s]

(* two rows, one with a tie between the anchors and one whose best anchor  *)
(* is not the first, each assigned as C2 says                              *)
C2_Witness ==
    /\ Done
    /\ \E i, j \in 1..NRows :
        /\ \A a \in Anchors : args.ious[a][i] = args.ious[1][i]
        /\ \E a \in Anchors : a > 1 /\ args.ious[a][j] > args.ious[1][j]
        /\ \E s \in Slots(args.nB, args.nG) :
            s[2] = 1 /\ AssignedTo(i, s) /\ bt.obj_mask[s]
        /\ \E s \in Slots(args.nB, args.nG) :
            s[2] > 1 /\ AssignedTo(j, s) /\ bt.obj_mask[s]

Reverse(q) == [i \in 1..Len(q) |-> q[Len(q) + 1 - i]]

(* C3: noobj_mask is true at a slot exactly when obj_mask is false there   *)
(* and no row of the slot's image lying in its cell has an IoU with the    *)
(* slot's anchor above ignore_thresh; the mask is the same when the rows   *)
(* are iterated in the opposite order.                                     *)
C3_IgnoreMask ==
    Done =>
        /\ \A s \in Slots(args.nB, args.nG) :
            bt.noobj_mask[s] <=>
                /\ ~bt.obj_mask[s]
                /\ ~\E i \in 1..NRows :
                       InCellOf(i, s) /\ args.ious[s[2]][i] > ignore_thresh
        /\ LET rt == Reverse(args.target)
               ri == [a \in Anchors |-> Reverse(args.ious[a])]
           IN  bt.noobj_mask =
                 BuildTargets(args.nB, args.nG, rt, scaled_anchors, ri,
                              CHOOSE p \in Preds : TRUE,
                              IdentityPrio(NRows)).noobj_mask

(* a row with an anchor above the threshold that is not its best match     *)
(* (noobj_mask and obj_mask both false there) and a row with an anchor at  *)
(* or below the threshold that is not its best match (noobj_mask true)     *)
C3_Witness ==
    /\ Done
    /\ \E i \in 1..NRows, s \in Slots(args.nB, args.nG) :
        /\ InCellOf(i, s) /\ ~AssignedTo(i, s)
        /\ args.ious[s[2]][i] > ignore_thresh
        /\ ~bt.noobj_mask[s] /\ ~bt.obj_mask[s]
    /\ \E i \in 1..NRows, s \in Slots(args.nB, args.nG) :
        /\ InCellOf(i, s) /\ ~AssignedTo(i, s)
        /\ args.ious[s[2]][i] <= ignore_thresh
        /\ bt.noobj_mask[s]

(* C8: with no row, build_targets returns obj_mask all false, noobj_mask   *)
(* all true and every other tensor all zero, at every batch and grid size. *)
C8_ZeroRows ==
    (bt.status # "none" /\ NRows = 0) =>
        /\ bt.status = "ok"
        /\ DOMAIN bt.obj_mask = Slots(args.nB, args.nG)
        /\ DOMAIN bt.noobj_mask = Slots(args.nB, args.nG)
        /\ \A s \in Slots(args.nB, args.nG) :
            /\ ~bt.obj_mask[s]
            /\ bt.noobj_mask[s]
            /\ \A f \in {bt.tconf, bt.tx, bt.ty, bt.tw, bt.th, bt.tim, bt.tre,
                         bt.iou_scores, bt.class_mask} :
                 f[s] = [kind |-> "rat", num |-> 0, den |-> 1]
            /\ \A c \in Classes : bt.tcls[s][c] = 0

C8_Witness ==
    /\ Done /\ NRows = 0
    /\ args.nB = MaxBatch /\ args.nG = MaxGrid
    /\ \A s \in Slots(MaxBatch, MaxGrid) : bt.noobj_mask[s]

(* C10: every row with its centre in [0,1] x [0,1] and its batch index     *)
(* below the batch size is written to a valid slot (0 <= gi, gj <          *)
(* grid_size), and tx, ty lie in [0,1).                                    *)
C10_SlotsInBounds ==
    bt.status # "none" =>
        /\ \A i \in 1..NRows :
            (/\ args.target[i].x \in 0..PosDenom
             /\ args.target[i].y \in 0..PosDenom
             /\ args.target[i].b \in 0..(args.nB - 1))
            => /\ ToLong(GScaled(args.target[i].x, args.nG)) \in 0..(args.nG - 1)
               /\ ToLong(GScaled(args.target[i].y, args.nG)) \in 0..(args.nG - 1)
        /\ bt.status = "ok"
        /\ \A s \in Slots(args.nB, args.nG) :
            /\ 0 <= bt.tx[s].num /\ bt.tx[s].num < bt.tx[s].den
            /\ 0 <= bt.ty[s].num /\ bt.ty[s].num < bt.ty[s].den

IsCall == call.op = "forward"

(* C4: a call whose targets have no row returns a finite loss that is not  *)
(* negative, its box term being zero and every term at least zero.         *)
C4_ZeroRowsLossFinite ==
    (IsCall /\ call.has_targets /\ call.n_rows = 0) =>
        /\ ret.status = "returned"
        /\ metrics.loss_box = "zero"
        /\ metrics.loss_obj \in {"zero", "pos"}
        /\ metrics.loss_cls \in {"zero", "pos"}
        /\ ret.loss \in {"zero", "pos"}

(* C5: a call runs compute_grid_offsets exactly when its grid size differs *)
(* from the cached one (0 at first), and a call with the cached grid size  *)
(* leaves grid_x, grid_y, scaled_anchors, anchor_w, anchor_h, the anchor   *)
(* polygons and areas (and the stride) as they were.                       *)
C5_Memoization ==
    [][ IsCall' =>
          /\ call'.computed <=> (call'.g # grid_size)
          /\ (call'.g = grid_size) => UNCHANGED cache
          /\ (call'.g # grid_size) =>
                /\ grid_size' = call'.g
                /\ Len(grid_x') = call'.g /\ Len(grid_y') = call'.g
                /\ \A r, c \in 1..call'.g :
                       grid_x'[r][c] = c - 1 /\ grid_y'[r][c] = r - 1
      ]_vars

(* a call with targets that found the cached grid size *)
C5_Witness ==
    /\ IsCall /\ ~call.computed /\ call.has_targets
    /\ grid_size = call.g /\ Len(grid_x) = call.g

(* C7: a call with targets=None returns the loss 0 and an output of shape  *)
(* (batch, num_anchors*grid*grid, 7+num_classes), does not run             *)
(* build_targets and leaves metrics as it was.                             *)
C7_NoTargets ==
    [][ (IsCall' /\ ~call'.has_targets) =>
          /\ ret'.status = "returned"
          /\ ret'.loss = "zero"
          /\ ret'.output_shape =
                <<call'.B, num_anchors * call'.g * call'.g, 7 + num_classes>>
          /\ ~call'.built
          /\ metrics' = metrics
      ]_vars

(* a call with targets=None after a call that recorded metrics *)
C7_Witness ==
    /\ IsCall /\ ~call.has_targets
    /\ metrics # <<>>
    /\ ret.status = "returned" /\ ret.loss = "zero"

(* sa is the anchor priors' width and height divided by st *)
ScaledBy(sa, st) ==
    /\ DOMAIN sa = Anchors
    /\ \A a \in Anchors :
        /\ sa[a].w.num * st.num = anchors[a].w * st.den * sa[a].w.den
        /\ sa[a].h.num * st.num = anchors[a].h * st.den * sa[a].h.den

(* C9 as stated: after every call the cached stride is the call's img_size *)
(* divided by its grid size and the scaled anchors are the priors divided  *)
(* by that stride.                                                         *)
C9_StrideOfCall ==
    IsCall =>
        /\ stride.num * call.g = call.img * stride.den
        /\ ScaledBy(scaled_anchors, stride)

(* C9 as amended: after every call the cached stride is the img_size of    *)
(* the latest call that ran compute_grid_offsets divided by the call's     *)
(* grid size, which is this call's img_size when this call ran it, and the *)
(* scaled anchors are the priors divided by the cached stride.             *)
C9_StrideOfRecompute ==
    IsCall =>
        /\ grid_size = call.g
        /\ stride.num * call.g = call.cache_img * stride.den
        /\ call.computed => call.cache_img = call.img
        /\ ScaledBy(scaled_anchors, stride)

(* a call that changed img_size and found the cached grid size *)
C9_Witness ==
    /\ IsCall /\ ~call.computed
    /\ call.img # call.cache_img
    /\ img_size = call.img

(* C6: of two concurrent calls with different grid sizes, each reads grid  *)
(* offsets, anchor arrays and a stride that belong to its own grid size,   *)
(* and none fails on a shape built for the other.                          *)
C6_OwnGeometry ==
    \A t \in DOMAIN thr :
        /\ thr[t].pc # "RuntimeError"
        /\ thr[t].pc = "done" =>
             LET own == ComputeGridOffsets(thr[t].g, thr[t].img)
             IN  /\ thr[t].read.grid_x = own.grid_x
                 /\ thr[t].read.grid_y = own.grid_y
                 /\ thr[t].read.anchor_w = own.anchor_w
                 /\ thr[t].read.anchor_h = own.anchor_h
                 /\ thr[t].read.stride = own.stride

====
